---- MODULE Spec2Model ----
(***************************************************************************)
(* pdfme-webservice: the three POST handlers of the service                *)
(*   /generate-pdf      (src/src/index.js and its image-aware variant      *)
(*                       src/unnamed/part_001)                             *)
(*   /protokoll-pdf     (src/src/index.js)                                 *)
(*   /extract-metadata  (src/src/index.js)                                 *)
(* A JavaScript string is a sequence of one-character strings; an optional *)
(* value (possibly undefined) is a sequence of length 0 or 1; an object is *)
(* a function whose DOMAIN is its set of own keys, or, where key order is  *)
(* observable (JSON.stringify), a sequence of <<key, value>> entries in    *)
(* insertion order.                                                        *)
(***************************************************************************)
EXTENDS Integers, Sequences, FiniteSets, TLC

VARIABLES
    pc,              \* position of the request handler between its awaits
    req,             \* the request being handled
    templateInputs,  \* the inputs array handed to generate()
    processedText,   \* /protokoll-pdf: the normalized text
    fetches,         \* axios.get promises issued by the handler, in order
    generateCall,    \* what generate() was invoked with, once invoked
    rendered,        \* the inputs the renderer read, once it has rendered
    pdfDoc,          \* the pdf-lib document held by the handler
    res,             \* the response sent for the request
    extractRes,      \* the response of an /extract-metadata request
    process          \* the Node process: whether it runs, which request
                     \* the variables above belong to, the other requests

vars == <<pc, req, templateInputs, processedText, fetches, generateCall,
          rendered, pdfDoc, res, extractRes, process>>

(***************************************************************************)
(* Bounds of the model.                                                    *)
(***************************************************************************)
MaxLen == 4      \* longest raw text posted to /protokoll-pdf
MaxPages == 2    \* most pages of a posted template
MaxFields == 2   \* most fields of a page
MaxRequests == 2 \* most requests the process handles concurrently

(***************************************************************************)
(* JavaScript values.                                                      *)
(***************************************************************************)
None == <<>>
Some(v) == <<v>>

\* ToBoolean of an optional string: undefined and '' are falsy.
Truthy(m) == m # None /\ m[1] # <<>>

\* a || b
Or(a, b) == IF Truthy(a) THEN a ELSE b

\* obj[key] on an object given as a function over its own keys
Lookup(obj, key) == IF key \in DOMAIN obj THEN Some(obj[key]) ELSE None

\* obj.prop on a record with optional fields
Prop(obj, prop) == IF prop \in DOMAIN obj THEN Some(obj[prop]) ELSE None

\* { ...a, ...b }
Spread(a, b) ==
    [k \in DOMAIN a \cup DOMAIN b |-> IF k \in DOMAIN b THEN b[k] ELSE a[k]]

\* ToPropertyKey: undefined used as a property key is the string "undefined"
PropertyKey(m) ==
    IF m = None THEN <<"u", "n", "d", "e", "f", "i", "n", "e", "d">> ELSE m[1]

\* Own keys of an insertion-ordered object
Keys(obj) == {obj[i][1] : i \in 1..Len(obj)}

\* obj[key] = value on an insertion-ordered object
Put(obj, key, value) ==
    IF key \in Keys(obj)
    THEN [i \in 1..Len(obj) |->
             IF obj[i][1] = key THEN <<key, value>> ELSE obj[i]]
    ELSE Append(obj, <<key, value>>)

RECURSIVE Concat(_)
Concat(ss) == IF ss = <<>> THEN <<>> ELSE Head(ss) \o Concat(Tail(ss))

RECURSIVE Join(_, _)
Join(ss, sep) ==
    IF ss = <<>> THEN <<>>
    ELSE IF Len(ss) = 1 THEN ss[1]
    ELSE ss[1] \o sep \o Join(Tail(ss), sep)

(***************************************************************************)
(* /protokoll-pdf: text normalization.                                     *)
(***************************************************************************)
\* Length of the match of /\r?\n/ starting at position i of s (0: no match)
MatchLineBreak(s, i) ==
    IF s[i] = "\n" THEN 1
    ELSE IF s[i] = "\r" /\ i < Len(s) /\ s[i + 1] = "\n" THEN 2
    ELSE 0

\* Position of the leftmost match of /\r?\n/ in s (0: none)
FirstLineBreak(s) ==
    LET hits == {i \in 1..Len(s) : MatchLineBreak(s, i) > 0}
    IN  IF hits = {} THEN 0 ELSE CHOOSE i \in hits : \A j \in hits : i <= j

\* text.split(/\r?\n/)
RECURSIVE SplitLines(_)
SplitLines(s) ==
    LET i == FirstLineBreak(s)
    IN  IF i = 0 THEN <<s>>
        ELSE <<SubSeq(s, 1, i - 1)>>
             \o SplitLines(SubSeq(s, i + MatchLineBreak(s, i), Len(s)))

\* A trim that strips blanks and tabs only, as /^[ \t]+|[ \t]+$/g would
IsBlankOnly(c) == c \in {" ", "\t"}

\* What String.prototype.trim strips: WhiteSpace and LineTerminator
IsWhiteSpace(c) == c \in {" ", "\t", "\n", "\r", "\f"}

RECURSIVE TrimStart(_)
TrimStart(s) ==
    IF s # <<>> /\ IsWhiteSpace(Head(s)) THEN TrimStart(Tail(s)) ELSE s

RECURSIVE TrimEnd(_)
TrimEnd(s) ==
    IF s # <<>> /\ IsWhiteSpace(s[Len(s)])
    THEN TrimEnd(SubSeq(s, 1, Len(s) - 1)) ELSE s

\* line.trim()
Trim(s) == TrimEnd(TrimStart(s))

\* text.split(/\r?\n/).map(line => line.trim()).join('\n')
Normalize(text) ==
    LET lines == SplitLines(text)
    IN  Join([i \in 1..Len(lines) |-> Trim(lines[i])], <<"\n">>)

(***************************************************************************)
(* /generate-pdf: input resolution.                                        *)
(***************************************************************************)
\* mergedInputs[field.name] || field.content || ''
ResolveField(field, mergedInputs) ==
    Or(Or(Lookup(mergedInputs, PropertyKey(Prop(field, "name"))),
          Prop(field, "content")),
       Some(<<>>))[1]

\* page.forEach(field => { pageData[field.name] = ... }) on top of pageData
RECURSIVE AssignFields(_, _, _)
AssignFields(pageData, fields, mergedInputs) ==
    IF fields = <<>> THEN pageData
    ELSE AssignFields(
             Put(pageData, PropertyKey(Prop(Head(fields), "name")),
                 ResolveField(Head(fields), mergedInputs)),
             Tail(fields), mergedInputs)

\* schemas.map(page => { const pageData = {}; ...; return pageData; })
ResolveInputs(schemas, mergedInputs) ==
    [p \in 1..Len(schemas) |-> AssignFields(<<>>, schemas[p], mergedInputs)]

\* field.type === 'image' && field.src
IsRemoteImage(field) ==
    Prop(field, "type") = Some("image") /\ Truthy(Prop(field, "src"))

\* The fields for which the forEach takes the else branch
RECURSIVE LocalFields(_)
LocalFields(fields) ==
    IF fields = <<>> THEN <<>>
    ELSE IF IsRemoteImage(Head(fields)) THEN LocalFields(Tail(fields))
    ELSE <<Head(fields)>> \o LocalFields(Tail(fields))

\* The axios.get promises the forEach issues, in order, all pending
RECURSIVE IssueFetches(_)
IssueFetches(fields) ==
    IF fields = <<>> THEN <<>>
    ELSE IF IsRemoteImage(Head(fields))
         THEN <<[name |-> PropertyKey(Prop(Head(fields), "name")),
                 status |-> "pending"]>> \o IssueFetches(Tail(fields))
         ELSE IssueFetches(Tail(fields))

\* templateInputs = [{}] filled by the nested forEach over all pages
ResolveInputsFlat(schemas, mergedInputs) ==
    <<AssignFields(<<>>, LocalFields(Concat(schemas)), mergedInputs)>>

\* Buffer.from(response.data, 'binary').toString('base64')
imageBase64 == <<"a", "W", "1", "n">>

(***************************************************************************)
(* JSON.stringify of an object of string values.                           *)
(***************************************************************************)
QuoteChar(c) ==
    IF c = "\"" THEN <<"\\", "\"">>
    ELSE IF c = "\\" THEN <<"\\", "\\">>
    ELSE IF c = "\n" THEN <<"\\", "n">>
    ELSE IF c = "\r" THEN <<"\\", "r">>
    ELSE IF c = "\t" THEN <<"\\", "t">>
    ELSE <<c>>

Quote(s) ==
    <<"\"">> \o Concat([i \in 1..Len(s) |-> QuoteChar(s[i])]) \o <<"\"">>

StringifyObject(obj) ==
    <<"{">>
    \o Join([i \in 1..Len(obj) |->
                Quote(obj[i][1]) \o <<":">> \o Quote(obj[i][2])], <<",">>)
    \o <<"}">>

\* JSON.stringify(templateInputs[0]): undefined when the array is empty
StringifyFirst(inputs) ==
    IF inputs = <<>> THEN None ELSE Some(StringifyObject(inputs[1]))

(***************************************************************************)
(* pdf-lib: a document is its rendered content and its Info dictionary;    *)
(* a text string of the Info dictionary is a hex string in UTF-16BE with   *)
(* a byte order mark.                                                      *)
(***************************************************************************)
EncodeText(s) ==
    <<"FE", "FF">> \o Concat([i \in 1..Len(s) |-> <<"00", s[i]>>])

DecodeText(h) ==
    IF Len(h) >= 2 /\ h[1] = "FE" /\ h[2] = "FF"
    THEN [i \in 1..((Len(h) - 2) \div 2) |-> h[2 + 2 * i]]
    ELSE h

\* pdfDoc.setSubject(subject)
SetSubject(doc, subject) ==
    [doc EXCEPT !.info = [k \in {"Subject"} |-> EncodeText(subject)]]

\* pdfDoc.getSubject(): undefined when the Info dictionary has no Subject
GetSubject(doc) ==
    IF "Subject" \in DOMAIN doc.info
    THEN Some(DecodeText(doc.info["Subject"])) ELSE None

\* The bytes generate() resolves with: the inputs as drawn, no Subject
RenderedPdf(inputs) == [parseable |-> TRUE, content |-> inputs, info |-> <<>>]

(***************************************************************************)
(* Requests the clients may send.                                          *)
(***************************************************************************)
FieldChoices ==
    { [name |-> <<"a">>, type |-> "text", content |-> <<"D">>],
      [name |-> <<"b">>, type |-> "text"],
      [name |-> <<"c">>, type |-> "image", src |-> <<"u">>],
      [type |-> "text", content |-> <<"D">>] }

PageChoices == UNION {[1..n -> FieldChoices] : n \in 0..MaxFields}

SchemasChoices == UNION {[1..n -> PageChoices] : n \in 0..MaxPages}

\* Objects with keys among "a" (a field name) and "x" (no field's name)
ObjectChoices(value) ==
    UNION {[K -> {<<>>, <<value>>}] : K \in SUBSET {<<"a">>, <<"x">>}}

InputsChoices ==
    {o \in ObjectChoices("B") : <<"x">> \in DOMAIN o => o[<<"x">>] # <<>>}

QueryChoices ==
    {o \in ObjectChoices("Q") : <<"x">> \in DOMAIN o => o[<<"x">>] # <<>>}

\* Bodies of /generate-pdf: schemas, basePdf and inputs are each optional
BodyChoices ==
    LET withSchemas == {<<>>} \cup {[k \in {"schemas"} |-> sc] : sc \in SchemasChoices}
        withBasePdf == {<<>>, [k \in {"basePdf"} |-> <<"P">>]}
        withInputs == {<<>>} \cup {[k \in {"inputs"} |-> i] : i \in InputsChoices}
    IN  {Spread(Spread(a, b), c) :
            a \in withSchemas, b \in withBasePdf, c \in withInputs}

TextChars == {"a", " ", "\r", "\n"}

TextChoices == UNION {[1..n -> TextChars] : n \in 0..MaxLen}

\* Files uploaded to /extract-metadata that no handler of the service made
ForeignUploads ==
    { [parseable |-> FALSE],
      [parseable |-> TRUE, content |-> <<>>, info |-> <<>>],
      [parseable |-> TRUE, content |-> <<>>,
       info |-> [k \in {"Subject"} |-> EncodeText(<<>>)]],
      [parseable |-> TRUE, content |-> <<>>,
       info |-> [k \in {"Subject"} |-> EncodeText(<<"{", "}">>)]] }

(***************************************************************************)
(* Responses.                                                              *)
(***************************************************************************)
SendPdf(bytes) == [status |-> 200, type |-> "application/pdf", body |-> bytes]

SendText(text) == [status |-> 200, type |-> "text/plain", body |-> text]

SendError(code, message) == [status |-> code, error |-> message]

\* The state of a handler whose request has not arrived
IdleHandler ==
    [pc |-> "idle", req |-> None, templateInputs |-> <<>>,
     processedText |-> None, fetches |-> <<>>, generateCall |-> None,
     rendered |-> None, pdfDoc |-> None, res |-> None, extractRes |-> None]

Init ==
    /\ pc = "idle"
    /\ req = None
    /\ templateInputs = <<>>
    /\ processedText = None
    /\ fetches = <<>>
    /\ generateCall = None
    /\ rendered = None
    /\ pdfDoc = None
    /\ res = None
    /\ extractRes = None
    /\ process = [alive |-> TRUE, serving |-> 1,
                  parked |-> [i \in 2..MaxRequests |-> IdleHandler]]

\* res.status(...).json(...) followed by return, or the catch block
Respond(response) ==
    /\ pc' = "done"
    /\ res' = Some(response)

\* generate({ template, inputs }) is called; the handler awaits it
InvokeGenerate(inputs, issued) ==
    /\ templateInputs' = inputs
    /\ fetches' = issued
    /\ generateCall' = Some([inputs |-> inputs, fetches |-> issued])
    /\ pc' = "generate"
    /\ UNCHANGED res

(***************************************************************************)
(* POST /generate-pdf, src/src/index.js, up to the await of generate().    *)
(***************************************************************************)
GeneratePdfFrom(bodies, queries) ==
    /\ pc = "idle"
    /\ \E body \in bodies, query \in queries :
        LET schemas == Prop(body, "schemas")
            basePdf == Prop(body, "basePdf")
            inputs == IF "inputs" \in DOMAIN body THEN body["inputs"] ELSE <<>>
            mergedInputs == Spread(inputs, query)
        IN  /\ req' = Some([route |-> "/generate-pdf", images |-> FALSE,
                            body |-> body, query |-> query])
            /\ IF ~Truthy(basePdf) \/ schemas = None
               THEN /\ Respond(SendError(400,
                        "Template schema with basePdf and schemas is required"))
                    /\ UNCHANGED <<templateInputs, fetches, generateCall>>
               ELSE InvokeGenerate(ResolveInputs(schemas[1], mergedInputs), <<>>)
    /\ UNCHANGED <<processedText, rendered, pdfDoc, extractRes, process>>

GeneratePdf == GeneratePdfFrom(BodyChoices, QueryChoices)

(***************************************************************************)
(* POST /generate-pdf, src/unnamed/part_001, up to the await of generate().*)
(***************************************************************************)
GeneratePdfWithImagesFrom(bodies, queries) ==
    /\ pc = "idle"
    /\ \E body \in {b \in bodies : "basePdf" \notin DOMAIN b},
          query \in queries :
        LET schemas == Prop(body, "schemas")
            inputs == IF "inputs" \in DOMAIN body THEN body["inputs"] ELSE <<>>
            mergedInputs == Spread(inputs, query)
        IN  /\ req' = Some([route |-> "/generate-pdf", images |-> TRUE,
                            body |-> body, query |-> query])
            /\ IF schemas = None
               THEN /\ Respond(SendError(400, "Template schema is required"))
                    /\ UNCHANGED <<templateInputs, fetches, generateCall>>
               ELSE InvokeGenerate(ResolveInputsFlat(schemas[1], mergedInputs),
                                   IssueFetches(Concat(schemas[1])))
    /\ UNCHANGED <<processedText, rendered, pdfDoc, extractRes, process>>

GeneratePdfWithImages ==
    GeneratePdfWithImagesFrom(BodyChoices, QueryChoices)

\* .then(response => { templateInputs[0][field.name] = imageBase64; })
FetchThen ==
    /\ \E i \in 1..Len(fetches) :
        /\ fetches[i].status = "pending"
        /\ fetches' = [fetches EXCEPT ![i].status = "fulfilled"]
        /\ templateInputs' = [templateInputs EXCEPT
               ![1] = Put(@, fetches[i].name, imageBase64)]
    /\ UNCHANGED <<pc, req, processedText, generateCall, rendered, pdfDoc,
                   res, extractRes, process>>

\* The promise chain without its .catch: the rejection of axios.get is an
\* unhandled rejection, on which Node terminates the process
FetchRejectionUnhandled ==
    /\ \E i \in 1..Len(fetches) :
        /\ fetches[i].status = "pending"
        /\ fetches' = [fetches EXCEPT ![i].status = "rejected"]
    /\ process' = [process EXCEPT !.alive = FALSE]
    /\ UNCHANGED <<pc, req, templateInputs, processedText, generateCall,
                   rendered, pdfDoc, res, extractRes>>

\* .catch(error => { console.error('Error downloading image:', error); })
FetchCatch ==
    /\ \E i \in 1..Len(fetches) :
        /\ fetches[i].status = "pending"
        /\ fetches' = [fetches EXCEPT ![i].status = "rejected"]
    /\ UNCHANGED <<pc, req, templateInputs, processedText, generateCall,
                   rendered, pdfDoc, res, extractRes, process>>

(***************************************************************************)
(* POST /protokoll-pdf, up to the await of generate().                     *)
(***************************************************************************)
ProtokollPdfFrom(texts) ==
    /\ pc = "idle"
    /\ \E text \in texts :
        /\ req' = Some([route |-> "/protokoll-pdf", body |-> text])
        /\ IF ~Truthy(Some(text))
           THEN /\ Respond(SendError(400,
                    "Text content is required in the request body"))
                /\ UNCHANGED <<templateInputs, processedText, fetches,
                               generateCall>>
           ELSE /\ processedText' = Some(Normalize(text))
                /\ InvokeGenerate(
                       <<<< <<<<"c", "o", "n", "t", "e", "n", "t">>,
                               Normalize(text)>> >>>>, <<>>)
    /\ UNCHANGED <<rendered, pdfDoc, extractRes, process>>

ProtokollPdf == ProtokollPdfFrom(TextChoices)

(***************************************************************************)
(* The handlers after the await of generate().                             *)
(***************************************************************************)
\* generate() resolves: the renderer has drawn the inputs object as it is
\* now; the handler calls PDFDocument.load(pdfmeResult.buffer) and awaits
GenerateResolve ==
    /\ pc = "generate"
    /\ rendered' = Some(templateInputs)
    /\ pdfDoc' = Some(RenderedPdf(templateInputs))
    /\ pc' = "load"
    /\ UNCHANGED <<req, templateInputs, processedText, fetches, generateCall,
                   res, extractRes, process>>

\* The subject cut to a fixed length before it is embedded
SubjectPayloadTruncated ==
    IF req[1].route = "/protokoll-pdf"
    THEN Some(IF Len(processedText[1]) > 2
              THEN SubSeq(processedText[1], 1, 2) ELSE processedText[1])
    ELSE StringifyFirst(templateInputs)

\* The string the handler passes to setSubject
SubjectPayload ==
    IF req[1].route = "/protokoll-pdf" THEN processedText
    ELSE StringifyFirst(templateInputs)

\* PDFDocument.load resolves: setSubject, then pdfDoc.save() is awaited;
\* setSubject throws on a subject that is not a string
LoadResolve ==
    /\ pc = "load"
    /\ IF SubjectPayload = None
       THEN /\ Respond(SendError(500, "Failed to generate PDF"))
            /\ UNCHANGED pdfDoc
       ELSE /\ pdfDoc' = Some(SetSubject(pdfDoc[1], SubjectPayload[1]))
            /\ pc' = "save"
            /\ UNCHANGED res
    /\ UNCHANGED <<req, templateInputs, processedText, fetches, generateCall,
                   rendered, extractRes, process>>

\* pdfDoc.save() resolves: res.send(Buffer.from(modifiedPdfBytes))
SaveResolve ==
    /\ pc = "save"
    /\ Respond(SendPdf(pdfDoc[1]))
    /\ UNCHANGED <<req, templateInputs, processedText, fetches, generateCall,
                   rendered, pdfDoc, extractRes, process>>

\* generate(), PDFDocument.load or pdfDoc.save() rejects: the catch block
AwaitReject ==
    /\ pc \in {"generate", "load", "save"}
    /\ Respond(SendError(500, "Failed to generate PDF"))
    /\ UNCHANGED <<req, templateInputs, processedText, fetches, generateCall,
                   rendered, pdfDoc, extractRes, process>>

(***************************************************************************)
(* POST /extract-metadata.                                                 *)
(***************************************************************************)
\* The handler without its `|| ''`: a missing subject answered as an error
ExtractResponseNoFallback(file) ==
    IF file = None
    THEN SendError(400,
        "No PDF file provided. Please upload a PDF file with field name \"pdf\".")
    ELSE IF ~file[1].parseable \/ GetSubject(file[1]) = None
    THEN SendError(400, "Failed to parse PDF file")
    ELSE SendText(GetSubject(file[1])[1])

\* The response to an upload: file is req.file, undefined without a file
ExtractResponse(file) ==
    IF file = None
    THEN SendError(400,
        "No PDF file provided. Please upload a PDF file with field name \"pdf\".")
    ELSE IF ~file[1].parseable
    THEN SendError(400, "Failed to parse PDF file")
    ELSE SendText(Or(GetSubject(file[1]), Some(<<>>))[1])

\* The files a client uploads: to the idle service no file or a foreign
\* file, to the service that answered a request the document it returned
UploadChoices ==
    IF pc = "idle" THEN {None} \cup {Some(f) : f \in ForeignUploads}
    ELSE IF res # None /\ res[1].status = 200 THEN {Some(res[1].body)}
    ELSE {}

\* The handler reads nothing but its upload; with it the client's session
\* with the service ends
ExtractMetadata ==
    /\ pc \in {"idle", "done"}
    /\ extractRes = None
    /\ \E file \in UploadChoices :
        extractRes' = Some([file |-> file, res |-> ExtractResponse(file)])
    /\ pc' = "done"
    /\ UNCHANGED <<req, templateInputs, processedText, fetches,
                   generateCall, rendered, pdfDoc, res, process>>

(***************************************************************************)
(* Specifications: the /generate-pdf service with /extract-metadata, and   *)
(* the /protokoll-pdf service with /extract-metadata.                      *)
(***************************************************************************)
Next ==
    \/ GeneratePdf
    \/ GeneratePdfWithImages
    \/ FetchThen
    \/ FetchCatch
    \/ GenerateResolve
    \/ LoadResolve
    \/ SaveResolve
    \/ AwaitReject
    \/ ExtractMetadata

Spec == Init /\ [][Next]_vars

NextText ==
    \/ ProtokollPdf
    \/ GenerateResolve
    \/ LoadResolve
    \/ SaveResolve
    \/ AwaitReject
    \/ ExtractMetadata

SpecText == Init /\ [][NextText]_vars

(***************************************************************************)
(* Concurrent requests. Every handler invocation has its own req, res and  *)
(* closure variables; the module keeps no mutable state. The variables     *)
(* pc .. extractRes are those of the request the event loop is serving,    *)
(* process.parked holds those of the other requests, and Switch is the     *)
(* event loop turning to a callback of another request.                    *)
(***************************************************************************)
Serving ==
    [pc |-> pc, req |-> req, templateInputs |-> templateInputs,
     processedText |-> processedText, fetches |-> fetches,
     generateCall |-> generateCall, rendered |-> rendered, pdfDoc |-> pdfDoc,
     res |-> res, extractRes |-> extractRes]

\* The handler state of request i
Handler(i) == IF process.serving = i THEN Serving ELSE process.parked[i]

SwitchTo(j) ==
    /\ j \in DOMAIN process.parked
    /\ process' = [process EXCEPT
           !.serving = j,
           !.parked = [i \in (DOMAIN process.parked \ {j}) \cup {process.serving}
                          |-> IF i = process.serving THEN Serving
                              ELSE process.parked[i]]]
    /\ pc' = process.parked[j].pc
    /\ req' = process.parked[j].req
    /\ templateInputs' = process.parked[j].templateInputs
    /\ processedText' = process.parked[j].processedText
    /\ fetches' = process.parked[j].fetches
    /\ generateCall' = process.parked[j].generateCall
    /\ rendered' = process.parked[j].rendered
    /\ pdfDoc' = process.parked[j].pdfDoc
    /\ res' = process.parked[j].res
    /\ extractRes' = process.parked[j].extractRes

Switch == \E j \in 1..MaxRequests : SwitchTo(j)

\* The requests sent concurrently: a body without schemas, a template of
\* one remote image field, and with basePdf a template of one text field
ConcurrentBodies ==
    { <<>>,
      [k \in {"schemas"} |->
          <<<<[name |-> <<"c">>, type |-> "image", src |-> <<"u">>]>>>>],
      Spread([k \in {"schemas"} |->
                 <<<<[name |-> <<"a">>, type |-> "text", content |-> <<"D">>]>>>>],
             [k \in {"basePdf"} |-> <<"P">>]) }

ConcurrentQueries == {<<>>}

ConcurrentTexts == {<<>>, <<"a">>}

\* An awaited promise of the serving request settles
Settle ==
    \/ GenerateResolve
    \/ LoadResolve
    \/ SaveResolve
    \/ AwaitReject

\* Nothing runs in a terminated process
NextConcurrent ==
    \/ process.alive /\ GeneratePdfFrom(ConcurrentBodies, ConcurrentQueries)
    \/ process.alive
         /\ GeneratePdfWithImagesFrom(ConcurrentBodies, ConcurrentQueries)
    \/ process.alive /\ ProtokollPdfFrom(ConcurrentTexts)
    \/ process.alive /\ ExtractMetadata
    \/ process.alive /\ FetchThen
    \/ process.alive /\ FetchCatch
    \/ process.alive /\ GenerateResolve
    \/ process.alive /\ LoadResolve
    \/ process.alive /\ SaveResolve
    \/ process.alive /\ AwaitReject
    \/ process.alive /\ Switch

\* The event loop runs the continuation of every promise that has settled,
\* and the promises the handlers await (generate, PDFDocument.load, save)
\* do settle; the axios.get promises, which have no timeout, need not.
\* Fairness is strong because a continuation is enabled only while its
\* request is the one being served.
Fairness ==
    /\ \A j \in 1..MaxRequests : SF_vars(process.alive /\ SwitchTo(j))
    /\ SF_vars(process.alive /\ Settle)

SpecConcurrent == Init /\ [][NextConcurrent]_vars /\ Fairness

(***************************************************************************)
(* Properties.                                                             *)
(***************************************************************************)
\* The value of an own key of an insertion-ordered object
ValueOf(obj, key) == obj[CHOOSE i \in 1..Len(obj) : obj[i][1] = key][2]

\* A /generate-pdf request whose template reached generate()
Generating ==
    /\ req # None
    /\ req[1].route = "/generate-pdf"
    /\ generateCall # None

\* The request answered with a document
Succeeded == res # None /\ res[1].status = 200

AllNamed(schemas) ==
    \A p \in 1..Len(schemas) : \A f \in 1..Len(schemas[p]) :
        "name" \in DOMAIN schemas[p][f]

\* C1: in the image-aware /generate-pdf handler every fetch issued for a
\* remote image field has been fulfilled or rejected by the time generate()
\* is invoked; the renderer is never called with a fetch still pending.
C1_FetchesSettledBeforeGenerate ==
    Generating =>
        \A i \in 1..Len(generateCall[1].fetches) :
            generateCall[1].fetches[i].status # "pending"

\* The value the precedence rule gives a field: the query override when
\* present, else the body input when present, else the default content when
\* present, else the empty string
PrecedenceValue(field, inputs, query) ==
    IF field.name \in DOMAIN query THEN query[field.name]
    ELSE IF field.name \in DOMAIN inputs THEN inputs[field.name]
    ELSE IF "content" \in DOMAIN field THEN field.content
    ELSE <<>>

\* C2: every named field that /generate-pdf resolves from the merged inputs
\* gets the query override Q when one is present (the empty string
\* included), else the body input B when present, else its default content
\* D when present, else the empty string.
C2_ResolvedByPrecedence ==
    Generating =>
        LET body == req[1].body
            schemas == body["schemas"]
            inputs == IF "inputs" \in DOMAIN body THEN body["inputs"] ELSE <<>>
            given == generateCall[1].inputs
        IN  \A p \in 1..Len(schemas) : \A f \in 1..Len(schemas[p]) :
                LET field == schemas[p][f]
                    page == IF req[1].images THEN given[1] ELSE given[p]
                IN  ("name" \in DOMAIN field
                        /\ ~(req[1].images /\ IsRemoteImage(field)))
                    => /\ field.name \in Keys(page)
                       /\ ValueOf(page, field.name)
                              = PrecedenceValue(field, inputs, req[1].query)

\* C3: for a template of one or more pages of named fields, the input set
\* handed to generate() has exactly one map per template page, and the keys of the map of page p are exactly the field names of
\* page p: no field omitted, no key that names no field of the page.
C3_OneMapPerPageExactKeys ==
    Generating =>
        LET schemas == req[1].body["schemas"]
            given == generateCall[1].inputs
        IN  (schemas # <<>> /\ AllNamed(schemas)) =>
                /\ Len(given) = Len(schemas)
                /\ \A p \in 1..Len(schemas) :
                       Keys(given[p])
                           = {schemas[p][f].name : f \in 1..Len(schemas[p])}

\* JSON.stringify of an array of objects
StringifyArray(inputs) ==
    <<"[">>
    \o Join([p \in 1..Len(inputs) |-> StringifyObject(inputs[p])], <<",">>)
    \o <<"]">>

\* All pages' entries collected into one object, in page order
RECURSIVE MergePages(_, _)
MergePages(obj, inputs) ==
    IF inputs = <<>> THEN obj
    ELSE IF Head(inputs) = <<>> THEN MergePages(obj, Tail(inputs))
    ELSE MergePages(Put(obj, Head(inputs)[1][1], Head(inputs)[1][2]),
                    <<Tail(Head(inputs))>> \o Tail(inputs))

\* The serializations of a whole input set: the JSON of its array of maps,
\* the JSON of the one object holding the entries of all its pages, which
\* for a single page is the JSON of that page's map
Serializations(inputs) ==
    {StringifyArray(inputs), StringifyObject(MergePages(<<>>, inputs))}

\* C4: posting the document /generate-pdf (src/src/index.js) returned to
\* /extract-metadata returns the serialization of the whole input set that
\* was rendered, covering the fields of all pages.
C4_GenerateRoundTrip ==
    (Generating /\ ~req[1].images /\ Succeeded /\ extractRes # None) =>
        \E text \in Serializations(rendered[1]) :
            extractRes[1].res = SendText(text)

\* C5: for every non-empty text posted to /protokoll-pdf the subject of the
\* returned document is the whole normalized text, and /extract-metadata
\* returns exactly that text for the returned document.
C5_ProtokollRoundTrip ==
    (req # None /\ req[1].route = "/protokoll-pdf" /\ Succeeded) =>
        /\ GetSubject(res[1].body) = Some(Normalize(req[1].body))
        /\ extractRes # None =>
               /\ extractRes[1].file = Some(res[1].body)
               /\ extractRes[1].res = SendText(Normalize(req[1].body))

C5_Witness ==
    /\ req # None /\ req[1].route = "/protokoll-pdf" /\ Succeeded
    /\ extractRes # None
    /\ Normalize(req[1].body) # req[1].body
    /\ Len(Normalize(req[1].body)) >= 3
    /\ extractRes[1].res.body = Normalize(req[1].body)

\* C6: /extract-metadata answers an upload that parses but carries no
\* subject with the empty string and status 200, and an upload that does
\* not parse with status 400 and 'Failed to parse PDF file'.
C6_ExtractSeparatesOutcomes ==
    (extractRes # None /\ extractRes[1].file # None) =>
        LET file == extractRes[1].file[1]
            answer == extractRes[1].res
        IN  /\ (file.parseable /\ "Subject" \notin DOMAIN file.info)
                  => answer = SendText(<<>>)
            /\ ~file.parseable
                  => answer = SendError(400, "Failed to parse PDF file")

C6_Witness ==
    /\ extractRes # None /\ extractRes[1].file # None
    /\ extractRes[1].file[1].parseable
    /\ "Subject" \notin DOMAIN extractRes[1].file[1].info
    /\ extractRes[1].res.status = 200
    /\ extractRes[1].res.body = <<>>

\* C7: a /generate-pdf request is never answered with a document from which
\* the image of a field is missing because its fetch failed.
C7_NoSilentImageLoss ==
    (Generating /\ Succeeded) =>
        \A i \in 1..Len(fetches) :
            fetches[i].status = "rejected"
                => fetches[i].name \in Keys(res[1].body.content[1])

\* A template without pages, or with a field without a name
Malformed(schemas) == schemas = <<>> \/ ~AllNamed(schemas)

\* C8: a /generate-pdf request whose template has no pages or a field
\* without a name is answered with status 400, and generate() is never
\* invoked for it.
C8_MalformedTemplateRejected ==
    (req # None /\ req[1].route = "/generate-pdf"
        /\ "schemas" \in DOMAIN req[1].body
        /\ Malformed(req[1].body["schemas"])) =>
        /\ generateCall = None
        /\ res # None => res[1].status = 400

\* C9: the normalization of /protokoll-pdf is idempotent: normalizing the
\* normalized text returns it unchanged.
C9_NormalizeIdempotent ==
    processedText # None => Normalize(processedText[1]) = processedText[1]

C9_Witness ==
    /\ processedText # None
    /\ processedText[1] # req[1].body
    /\ \E i \in 1..Len(processedText[1]) : processedText[1][i] = "\n"
    /\ \E i \in 1..Len(req[1].body) : req[1].body[i] = "\r"

\* The pieces of s between the occurrences of the separator "\n"
RECURSIVE LinesOf(_)
LinesOf(s) ==
    LET hits == {i \in 1..Len(s) : s[i] = "\n"}
    IN  IF hits = {} THEN <<s>>
        ELSE LET i == CHOOSE i \in hits : \A j \in hits : i <= j
             IN  <<SubSeq(s, 1, i - 1)>> \o LinesOf(SubSeq(s, i + 1, Len(s)))

\* C10: whatever line endings the text uses (LF, CRLF, lone CR, mixed),
\* the normalized text holds no carriage return and each of its lines
\* between "\n" separators has no leading or trailing whitespace.
C10_OnlyNewlineSeparators ==
    processedText # None =>
        /\ \A i \in 1..Len(processedText[1]) : processedText[1][i] # "\r"
        /\ \A k \in 1..Len(LinesOf(processedText[1])) :
               LET line == LinesOf(processedText[1])[k]
               IN  line = <<>>
                   \/ (~IsWhiteSpace(line[1]) /\ ~IsWhiteSpace(line[Len(line)]))

\* C12: in every request to the image-aware /generate-pdf handler that ends
\* in success, the subject of the returned document is the serialization of
\* exactly the input object the renderer drew: no fetch callback adds or
\* changes a value between the renderer's read and JSON.stringify.
C12_SubjectIsWhatWasRendered ==
    (Generating /\ req[1].images /\ Succeeded) =>
        GetSubject(res[1].body) = Some(StringifyObject(rendered[1][1]))

\* The response a handler has sent, if any, to its request or to the
\* /extract-metadata request that followed it
Answered(h) == h.res # None \/ h.extractRes # None

\* No response is replaced or sent again, and none has another status than
\* 200, 400 or 500
ResponsesStand ==
    \A i \in 1..MaxRequests :
        /\ Handler(i).res # None =>
               /\ Handler(i)'.res = Handler(i).res
               /\ Handler(i).res[1].status \in {200, 400, 500}
        /\ Handler(i).extractRes # None =>
               /\ Handler(i)'.extractRes = Handler(i).extractRes
               /\ Handler(i).extractRes[1].res.status \in {200, 400, 500}

\* C11: every request that arrived eventually has a response, whatever
\* stage of it or of a concurrent request fails; a response once sent is
\* never replaced or followed by another, also when a fetch callback runs
\* after it; and no failure terminates the process.
C11_EveryRequestAnsweredOnce ==
    /\ [](process.alive)
    /\ [][ResponsesStand]_vars
    /\ \A i \in 1..MaxRequests :
           (Handler(i).pc # "idle") ~> Answered(Handler(i))

\* Two concurrent requests: one failed with 500 after its image fetch had
\* failed, the other was answered with a document
C11_Witness ==
    \E i, j \in 1..MaxRequests :
        /\ i # j
        /\ Handler(i).res # None /\ Handler(i).res[1].status = 500
        /\ \E k \in 1..Len(Handler(i).fetches) :
               Handler(i).fetches[k].status = "rejected"
        /\ Handler(j).res # None /\ Handler(j).res[1].status = 200

====
